---- MODULE Spec2Model ----
(***************************************************************************)
(* A model of radio/src/lib.rs: the ByteAccumulator (bit -> byte -> frame  *)
(* assembler), the RadioWriter (encode pipeline: write, transmit loop,     *)
(* drop) and the RadioReader (decode pipeline: capture loop, worker pool,  *)
(* decode jobs, read, drop).                                               *)
(***************************************************************************)
EXTENDS Integers, Sequences, FiniteSets, TLC

VARIABLES
    \* a ByteAccumulator driven on its own
    accMode,    \* "bit": fed through accumulate_bit; "byte": through accumulate_byte
    accInput,   \* the bytes to feed (in bit mode, their bits, LSB first)
    accPos,     \* how many bits (bit mode) or bytes (byte mode) have been fed
    acc,        \* the accumulator
    accOut,     \* the frames sent on its channel, in order
    accLog      \* one entry per accumulate_byte call: the byte, whether it was
                \* taken as a header, whether the call emitted a frame

VARIABLES
    \* the RadioWriter
    wCall,      \* per caller of write: pc, the data passed, how many bytes it has sent
    wLock,      \* the holder of the Mutex around the Sender (0: free)
    wq,         \* the bytes in the input channel, oldest first
    wSentLog,   \* every byte ever sent on the input channel, with its caller
    txPc,       \* the transmit thread: "recv", "bits", "sleep", "done"
    txVal,      \* the byte it is transmitting
    txShift,    \* the bit position it is at
    txFails,    \* how many stream.tx calls have failed
    pulses,     \* one entry per pulse slot slept: 1 if stream.tx was called in it
    wDropPc     \* the owner of the RadioWriter: "alive", "join", "dropped"

VARIABLES
    \* the RadioReader
    rRun,         \* the run flag
    capPc,        \* the capture thread: "check", "iter", "done", "panicked"
    air,          \* the blocks the stream delivers, in order
    scn,          \* what those blocks were made from
    captured,     \* how many of them the capture thread has taken
    capAfterStop, \* how many blocks were captured after the run flag was cleared
    jobs,         \* the decode jobs, in the order they were submitted to the pool
    rq,           \* the frames in the output channel, oldest first, with their job
    rLast,        \* the outcome of the latest read(): "frame", "none", "panic"
    rGot,         \* the frames read() has returned, in order
    rReadCount,   \* how many times read() was called
    rDropPc       \* the owner of the RadioReader: "alive", "join", "dropped", "panicked"

VARIABLES
    \* the moving average of one decode job, on its own
    arrLen,        \* arr.len(), the number of samples in the captured block
    avgPc,         \* "loop", "done", "panicked"
    avgX,          \* x, the index the for loop is at
    to_avg,        \* the window: the indices of the samples whose amplitudes it holds
    avg_over_time  \* per envelope value: the x it was pushed at and the window
                   \* it was summed over (first and last sample, size)

accVars == <<accMode, accInput, accPos, acc, accOut, accLog>>

wVars == <<wCall, wLock, wq, wSentLog, txPc, txVal, txShift, txFails, pulses, wDropPc>>

rVars == <<rRun, capPc, air, scn, captured, capAfterStop, jobs, rq, rLast, rGot, rReadCount, rDropPc>>

avgVars == <<arrLen, avgPc, avgX, to_avg, avg_over_time>>

vars == <<accVars, wVars, rVars, avgVars>>

(***************************************************************************)
(* Program constants.                                                      *)
(***************************************************************************)
MAX_BYTES == 127
READER_WORKERS == 10
PERIOD == 3300
MIN_GAP == 10
avg_length == 1000

(***************************************************************************)
(* Bounds of the model.                                                    *)
(***************************************************************************)
\* longest byte sequence fed to one accumulator run
MaxAccBytes == 4

\* concurrent callers of RadioWriter::write
NumCallers == 2

\* longest payload of a concurrent write
MaxWriteLen == 2

\* stream.tx failures in one run
MaxTxFails == 1

\* blocks the stream returns while the run flag is set
MaxBlocks == 2

\* longest payload of a frame split across two blocks
MaxSplitLen == 1

\* calls of read()
MaxReads == 2

\* above-threshold samples in a block of the gap-decode runs
MaxEdges == 3

\* samples of a block of the moving-average runs beyond avg_length
MaxExtraSamples == 5

\* the byte values the accumulator runs draw from: the headers 1 (length 0),
\* 3, 5, 7 (lengths 1, 2, 3) and the payload bytes 0x41, 0x42, 0x43
AccBytes == {1, 3, 5, 7, 65, 66, 67}

(***************************************************************************)
(* u8 arithmetic.                                                          *)
(***************************************************************************)
Pow2(i) == 2 ^ i

U8(x) == x % 256

\* (b >> i) & 1
BitAt(b, i) == (b \div Pow2(i)) % 2

\* b >> 1
Shr1(b) == b \div 2

\* b | (bit << i), on u8
OrBit(b, bit, i) == IF bit = 1 /\ BitAt(b, i) = 0 THEN U8(b + Pow2(i)) ELSE b

\* the 8 bits of a byte, least significant first, as a sequence of 0/1
BitsOf(b) == [i \in 1..8 |-> BitAt(b, i - 1)]

RECURSIVE BitsOfBytes(_)
BitsOfBytes(bs) == IF bs = <<>> THEN <<>> ELSE BitsOf(Head(bs)) \o BitsOfBytes(Tail(bs))

(***************************************************************************)
(* ByteAccumulator.  A send on the frame channel succeeds exactly when the *)
(* receiving end is alive (open).  Each operator returns the accumulator   *)
(* after the call, the frames the call sent and whether it returned Ok.    *)
(***************************************************************************)
ByteAccumulator_new == [data_len |-> 0, accum |-> <<>>, current_byte |-> 0, current_byte_idx |-> 0]

\* a header whose length field is taken without the shift
HeaderLenNoShift(byte) == byte

\* a header whose zero length is read as one
HeaderLenAtLeastOne(byte) == IF Shr1(byte) = 0 THEN 1 ELSE Shr1(byte)

HeaderLen(byte) == Shr1(byte)

\* a frame taken as complete one byte late
FrameCompleteOneLate(a) == Len(a.accum) = a.data_len + 1

\* self.accum.len() == self.data_len
FrameComplete(a) == Len(a.accum) = a.data_len

accumulate_byte(a, byte, open) ==
    IF a.data_len = 0
    THEN [acc |-> [a EXCEPT !.data_len = HeaderLen(byte)], sent |-> <<>>, ok |-> TRUE]
    ELSE LET pushed == [a EXCEPT !.accum = Append(a.accum, byte)]
         IN  IF FrameComplete(pushed)
             THEN IF open
                  THEN [acc |-> [pushed EXCEPT !.accum = <<>>, !.data_len = 0],
                        sent |-> <<pushed.accum>>, ok |-> TRUE]
                  ELSE [acc |-> pushed, sent |-> <<>>, ok |-> FALSE]
             ELSE [acc |-> pushed, sent |-> <<>>, ok |-> TRUE]

accumulate_bit(a, bit, open) ==
    LET r == IF a.current_byte_idx = 8
             THEN accumulate_byte(a, a.current_byte, open)
             ELSE [acc |-> a, sent |-> <<>>, ok |-> TRUE]
        f == IF a.current_byte_idx = 8 /\ r.ok
             THEN [r.acc EXCEPT !.current_byte_idx = 0, !.current_byte = 0]
             ELSE r.acc
    IN  IF ~r.ok
        THEN r
        ELSE [acc |-> [f EXCEPT !.current_byte = OrBit(f.current_byte, bit, f.current_byte_idx),
                                !.current_byte_idx = f.current_byte_idx + 1],
              sent |-> r.sent, ok |-> TRUE]

\* the wire encoding of a payload: header (len << 1) | 1, then the payload
HeaderOf(len) == OrBit(U8(U8(len) * 2), 1, 0)

Encode(payload) == <<HeaderOf(Len(payload))>> \o payload

RECURSIVE SeqsUpTo(_, _)
SeqsUpTo(S, n) ==
    IF n = 0 THEN {<<>>}
    ELSE LET shorter == SeqsUpTo(S, n - 1)
         IN  shorter \cup {Append(s, x) : s \in {t \in shorter : Len(t) = n - 1}, x \in S}

(***************************************************************************)
(* RadioWriter.  The Sender lives in the RadioWriter's channel field until *)
(* the field itself is dropped, which is after drop() has returned; the    *)
(* Receiver lives in the transmit thread until that thread returns.        *)
(***************************************************************************)
Callers == 1..NumCallers

\* the payload of n bytes that callers pass: 0x41, 0x42, ...
PayloadOf(n) == [i \in 1..n |-> U8(64 + i)]

SenderAlive == wDropPc # "dropped"

ReceiverAlive == txPc # "done"

\* a Mutex that lets every caller in
LockAlwaysAvailable == TRUE

\* Mutex::lock returns only when no other guard is alive
LockAvailable == wLock = 0

\* an assertion that lets one byte too many through
WriteAcceptsOneMore(data) == Len(data) <= MAX_BYTES + 1

\* assert!(data.len() <= MAX_BYTES)
WriteAccepts(data) == Len(data) <= MAX_BYTES

\* write, up to the assertion: a failed assertion panics before the lock is
\* taken and before anything is sent
WriteCall(c) ==
    /\ wCall[c].pc = "idle"
    /\ wDropPc = "alive"
    /\ wCall' = [wCall EXCEPT ![c].pc = IF WriteAccepts(wCall[c].data) THEN "lock" ELSE "panic"]
    /\ UNCHANGED <<wLock, wq, wSentLog, txPc, txVal, txShift, txFails, pulses, wDropPc>>
    /\ UNCHANGED <<accVars, rVars, avgVars>>

\* self.channel.lock().unwrap()
WriteLock(c) ==
    /\ wCall[c].pc = "lock"
    /\ LockAvailable
    /\ wLock' = c
    /\ wCall' = [wCall EXCEPT ![c].pc = "send"]
    /\ UNCHANGED <<wq, wSentLog, txPc, txVal, txShift, txFails, pulses, wDropPc>>
    /\ UNCHANGED <<accVars, rVars, avgVars>>

\* one locked_channel.send(..)?: the header first, then the payload bytes in
\* order; a failed send returns Err, the last successful one returns Ok, and
\* either return drops the guard
WriteSend(c) ==
    /\ wCall[c].pc = "send"
    /\ LET enc == Encode(wCall[c].data)
           n == wCall[c].sent + 1
       IN  IF ReceiverAlive
           THEN /\ wq' = Append(wq, enc[n])
                /\ wSentLog' = Append(wSentLog, [caller |-> c, byte |-> enc[n]])
                /\ wCall' = [wCall EXCEPT ![c].sent = n,
                                          ![c].pc = IF n = Len(enc) THEN "ok" ELSE "send"]
                /\ wLock' = IF n = Len(enc) THEN 0 ELSE wLock
           ELSE /\ wCall' = [wCall EXCEPT ![c].pc = "err"]
                /\ wLock' = 0
                /\ UNCHANGED <<wq, wSentLog>>
    /\ UNCHANGED <<txPc, txVal, txShift, txFails, pulses, wDropPc>>
    /\ UNCHANGED <<accVars, rVars, avgVars>>

\* rx.try_recv() in the transmit loop
TxRecv ==
    /\ txPc = "recv"
    /\ IF wq # <<>>
       THEN /\ txVal' = Head(wq)
            /\ wq' = Tail(wq)
            /\ txShift' = 0
            /\ txPc' = "bits"
       ELSE /\ txPc' = IF SenderAlive THEN "sleep" ELSE "done"
            /\ UNCHANGED <<wq, txVal, txShift>>
    /\ UNCHANGED <<wCall, wLock, wSentLog, txFails, pulses, wDropPc>>
    /\ UNCHANGED <<accVars, rVars, avgVars>>

\* sleep(THREAD_SLEEP_MILLIS) on an empty queue, then poll again
TxWake ==
    /\ txPc = "sleep"
    /\ txPc' = "recv"
    /\ UNCHANGED <<wCall, wLock, wq, wSentLog, txVal, txShift, txFails, pulses, wDropPc>>
    /\ UNCHANGED <<accVars, rVars, avgVars>>

\* a loop that gives up the byte when stream.tx fails
AfterTxAbandon(shift, ok) == IF ok THEN shift + 1 ELSE 8

\* the bit position after an iteration: an Err of stream.tx is logged, and the
\* for loop goes on
AfterTx(shift, ok) == shift + 1

\* one iteration of `for shift in 0..8`: stream.tx for a 1 bit (its failure is
\* logged and ignored), then the pulse-slot sleep
TxBit ==
    /\ txPc = "bits"
    /\ \E ok \in BOOLEAN :
        /\ ok \/ (BitAt(txVal, txShift) = 1 /\ txFails < MaxTxFails)
        /\ txFails' = IF ok THEN txFails ELSE txFails + 1
        /\ txShift' = AfterTx(txShift, ok)
        /\ txPc' = IF AfterTx(txShift, ok) = 8 THEN "recv" ELSE "bits"
    /\ pulses' = Append(pulses, BitAt(txVal, txShift))
    /\ UNCHANGED <<wCall, wLock, wq, wSentLog, txVal, wDropPc>>
    /\ UNCHANGED <<accVars, rVars, avgVars>>

WriteInFlight == \E c \in Callers : wCall[c].pc \in {"lock", "send"}

\* impl Drop for RadioWriter: drop(self.channel.lock().unwrap()) takes the
\* lock and drops the guard, which releases the lock and leaves the Sender in
\* place; then join() waits for the transmit thread to return.  drop takes
\* &mut self, so no write is in flight.
RadioWriter_drop ==
    /\ ~WriteInFlight
    /\ IF wDropPc = "alive"
       THEN /\ LockAvailable
            /\ wDropPc' = "join"
       ELSE /\ wDropPc = "join"
            /\ txPc = "done"
            /\ wDropPc' = "dropped"
    /\ UNCHANGED <<wCall, wLock, wq, wSentLog, txPc, txVal, txShift, txFails, pulses>>
    /\ UNCHANGED <<accVars, rVars, avgVars>>

WriterNext ==
    \/ \E c \in Callers : WriteCall(c) \/ WriteLock(c) \/ WriteSend(c)
    \/ TxRecv
    \/ TxWake
    \/ TxBit
    \/ RadioWriter_drop

TxThread == TxRecv \/ TxWake \/ TxBit

(***************************************************************************)
(* RadioReader.  A captured block is kept as its length in samples and the *)
(* indices at which the rectified envelope exceeds the threshold, in       *)
(* increasing order: the edge scan does nothing at any other index.        *)
(***************************************************************************)
RECURSIVE FalsesFromZero(_)
\* a loop that also runs at hold = 0
FalsesFromZero(hold) == IF hold >= 0 THEN <<0>> \o FalsesFromZero(hold - PERIOD) ELSE <<>>

RECURSIVE Falses(_)
\* while hold > 0 { accumulate_bit(false); hold -= 3300 }
Falses(hold) == IF hold > 0 THEN <<0>> \o Falses(hold - PERIOD) ELSE <<>>

\* the bits one decoded gap feeds to the accumulator
GapBits(gap) == Falses(gap - PERIOD) \o <<1>>

\* the bits the scan feeds for an above-threshold sample at index counter
EdgeBits(counter, last_counter) ==
    IF counter - last_counter > MIN_GAP THEN GapBits(counter - last_counter) ELSE <<>>

\* a scan that moves last_counter only to a sample it decoded
LastDecodedEdge(counter, last_counter) ==
    IF counter - last_counter > MIN_GAP THEN counter ELSE last_counter

\* last_counter = counter, for every above-threshold sample
NextLastCounter(counter, last_counter) == counter

RECURSIVE FeedBits(_, _, _)
\* accumulate_bit(..).unwrap() for each bit in turn, up to the first Err
FeedBits(a, bits, open) ==
    IF bits = <<>>
    THEN [acc |-> a, sent |-> <<>>, ok |-> TRUE]
    ELSE LET r == accumulate_bit(a, Head(bits), open)
         IN  IF ~r.ok
             THEN r
             ELSE LET rest == FeedBits(r.acc, Tail(bits), open)
                  IN  [rest EXCEPT !.sent = r.sent \o rest.sent]

RECURSIVE FedOk(_, _, _)
\* the bits pushed onto bin: each one after its accumulate_bit call returned Ok
FedOk(a, bits, open) ==
    IF bits = <<>>
    THEN <<>>
    ELSE LET r == accumulate_bit(a, Head(bits), open)
         IN  IF ~r.ok THEN <<>> ELSE <<Head(bits)>> \o FedOk(r.acc, Tail(bits), open)

\* a Receiver that outlives the RadioReader
ReceiverNeverDropped == TRUE

\* the Receiver is a field of the RadioReader
OutputReceiverAlive == rDropPc \in {"alive", "join"}

\* a channel whose only Senders are the clones in the jobs
SendersInJobsOnly == \E j \in 1..Len(jobs) : jobs[j].state \in {"queued", "running"}

\* the capture thread owns the first Sender, every job not yet finished a clone
OutputSendersAlive ==
    \/ capPc \in {"check", "iter"}
    \/ \E j \in 1..Len(jobs) : jobs[j].state \in {"queued", "running"}

\* an accumulator handed on from the block before
CarriedAccumulator(j) ==
    IF j > 1 /\ jobs[j - 1].state = "done" THEN jobs[j - 1].acc ELSE ByteAccumulator_new

\* ByteAccumulator::new(tx.clone()), once per captured block
BlockAccumulator(j) == ByteAccumulator_new

\* a load that does not see the store
RunLoadedStale == TRUE

\* run_thread.load(Ordering::SeqCst)
RunLoaded == rRun

\* the while condition of the capture loop
CapCheck ==
    /\ capPc = "check"
    /\ capPc' = IF RunLoaded THEN "iter" ELSE "done"
    /\ UNCHANGED <<rRun, air, scn, captured, capAfterStop, jobs, rq, rLast, rGot, rReadCount, rDropPc>>
    /\ UNCHANGED <<accVars, wVars, avgVars>>

SilentBlock == [len |-> PERIOD, edges |-> <<>>]

\* one iteration of the capture loop: the warm-up reads, the block, clear_buffer,
\* a new accumulator and pool.execute.  The stream returns its next block; once
\* the run flag is cleared it returns even with nothing left to deliver.
CapIter ==
    /\ capPc = "iter"
    /\ captured < Len(air) \/ (~rRun /\ capAfterStop < 2)
    /\ jobs' = Append(jobs, [state |-> "queued",
                             blk |-> IF captured < Len(air) THEN captured + 1 ELSE 0,
                             pos |-> 0, last_counter |-> 0, bin |-> <<>>,
                             acc |-> ByteAccumulator_new, emitted |-> <<>>])
    /\ captured' = IF captured < Len(air) THEN captured + 1 ELSE captured
    /\ capAfterStop' = IF rRun THEN capAfterStop ELSE capAfterStop + 1
    /\ capPc' = "check"
    /\ UNCHANGED <<rRun, air, scn, rq, rLast, rGot, rReadCount, rDropPc>>
    /\ UNCHANGED <<accVars, wVars, avgVars>>

\* a stream read that panics unwinds the capture thread: its Sender and the
\* pool handle are dropped, the jobs already submitted still run
StreamRxPanic ==
    /\ capPc = "iter"
    /\ capPc' = "panicked"
    /\ UNCHANGED <<rRun, air, scn, captured, capAfterStop, jobs, rq, rLast, rGot, rReadCount, rDropPc>>
    /\ UNCHANGED <<accVars, wVars, avgVars>>

\* the block job j decodes (blk 0: a block of silence)
BlockOf(j) == IF jobs[j].blk = 0 THEN SilentBlock ELSE air[jobs[j].blk]

Running == {j \in 1..Len(jobs) : jobs[j].state = "running"}

\* a worker takes the oldest queued job and runs it up to the edge scan; an
\* empty block panics at arr.len() - 1; a block without edges finishes at once
JobStart(j) ==
    /\ j \in 1..Len(jobs)
    /\ jobs[j].state = "queued"
    /\ \A i \in 1..(j - 1) : jobs[i].state # "queued"
    /\ Cardinality(Running) < READER_WORKERS
    /\ jobs' = [jobs EXCEPT ![j].state = IF BlockOf(j).len = 0 THEN "panicked"
                                         ELSE IF BlockOf(j).edges = <<>> THEN "done"
                                         ELSE "running",
                            ![j].acc = BlockAccumulator(j)]
    /\ UNCHANGED <<rRun, capPc, air, scn, captured, capAfterStop, rq, rLast, rGot, rReadCount, rDropPc>>
    /\ UNCHANGED <<accVars, wVars, avgVars>>

\* a channel that hands out the newest frame first
EnqueueFront(q, items) == items \o q

\* mpsc::Sender::send: the channel is first in, first out
Enqueue(q, items) == q \o items

\* the edge scan at the next above-threshold sample: the gap to the last
\* above-threshold sample is decoded if it exceeds the minimum gap, the bits go
\* to the job's accumulator, a completed frame goes on the output channel; a
\* failed send panics the job
JobEdge(j) ==
    /\ j \in 1..Len(jobs)
    /\ jobs[j].state = "running"
    /\ LET job == jobs[j]
           edges == BlockOf(j).edges
           counter == edges[job.pos + 1]
           bits == EdgeBits(counter, job.last_counter)
           r == FeedBits(job.acc, bits, OutputReceiverAlive)
           fed == FedOk(job.acc, bits, OutputReceiverAlive)
       IN  IF r.ok
           THEN /\ jobs' = [jobs EXCEPT ![j].acc = r.acc,
                                        ![j].bin = job.bin \o fed,
                                        ![j].last_counter = NextLastCounter(counter, job.last_counter),
                                        ![j].pos = job.pos + 1,
                                        ![j].emitted = job.emitted \o r.sent,
                                        ![j].state = IF job.pos + 1 = Len(edges)
                                                     THEN "done" ELSE "running"]
                /\ rq' = Enqueue(rq, [i \in 1..Len(r.sent) |-> [job |-> j, frame |-> r.sent[i]]])
           ELSE /\ jobs' = [jobs EXCEPT ![j].acc = r.acc,
                                        ![j].bin = job.bin \o fed,
                                        ![j].state = "panicked"]
                /\ UNCHANGED rq
    /\ UNCHANGED <<rRun, capPc, air, scn, captured, capAfterStop, rLast, rGot, rReadCount, rDropPc>>
    /\ UNCHANGED <<accVars, wVars, avgVars>>

\* try_recv reporting a dropped channel before looking at the queue
TryRecvClosedFirst(q, senders) ==
    IF ~senders THEN "disconnected" ELSE IF q # <<>> THEN "ok" ELSE "empty"

\* mpsc::Receiver::try_recv: buffered frames are delivered even after every
\* Sender is gone
TryRecv(q, senders) ==
    IF q # <<>> THEN "ok" ELSE IF senders THEN "empty" ELSE "disconnected"

\* RadioReader::read; read takes &self, so the reader is not being dropped
RadioReader_read ==
    /\ rDropPc = "alive"
    /\ rLast # "panic"
    /\ rReadCount < MaxReads
    /\ rReadCount' = rReadCount + 1
    /\ LET got == TryRecv(rq, OutputSendersAlive)
       IN  CASE got = "ok" ->
                    /\ rLast' = "frame"
                    /\ rGot' = Append(rGot, Head(rq))
                    /\ rq' = Tail(rq)
              [] got = "empty" ->
                    /\ rLast' = "none"
                    /\ UNCHANGED <<rGot, rq>>
              [] got = "disconnected" ->
                    /\ rLast' = "panic"
                    /\ UNCHANGED <<rGot, rq>>
    /\ UNCHANGED <<rRun, capPc, air, scn, captured, capAfterStop, jobs, rDropPc>>
    /\ UNCHANGED <<accVars, wVars, avgVars>>

\* impl Drop for RadioReader: store(false), then join() the capture thread
\* and unwrap its result; the pool's workers are not joined.  The fields,
\* the Receiver among them, are dropped when drop is over.
RadioReader_drop ==
    /\ IF rDropPc = "alive"
       THEN /\ rRun' = FALSE
            /\ rDropPc' = "join"
       ELSE /\ rDropPc = "join"
            /\ capPc \in {"done", "panicked"}
            /\ rDropPc' = IF capPc = "done" THEN "dropped" ELSE "panicked"
            /\ UNCHANGED rRun
    /\ UNCHANGED <<capPc, air, scn, captured, capAfterStop, jobs, rq, rLast, rGot, rReadCount>>
    /\ UNCHANGED <<accVars, wVars, avgVars>>

CaptureThread == CapCheck \/ CapIter

ReaderNext ==
    \/ CapCheck
    \/ CapIter
    \/ StreamRxPanic
    \/ \E j \in 1..(MaxBlocks + 1) : JobStart(j) \/ JobEdge(j)
    \/ RadioReader_read
    \/ RadioReader_drop

\* the pulse train of a bit sequence, one slot of PERIOD samples per bit, as
\* the block that holds it with its first slot at sample off
RECURSIVE TrainEdges(_, _)
TrainEdges(bits, off) ==
    IF bits = <<>> THEN <<>>
    ELSE (IF Head(bits) = 1 THEN <<off>> ELSE <<>>) \o TrainEdges(Tail(bits), off + PERIOD)

Train(bits, off) == [len |-> off + Len(bits) * PERIOD, edges |-> TrainEdges(bits, off)]

\* where in a block its first pulse slot can lie
Offsets == {20, PERIOD + 20}

\* a frame and the pulse that follows it (the marker bit of the next header)
FrameBits(payload) == BitsOfBytes(Encode(payload)) \o <<1>>

EmptyBlock == [len |-> 0, edges |-> <<>>]

\* the blocks a stream returns whole: one without any sample, and one with
\* the frames [1] and [2] and the pulse that follows them
BlockPool ==
    {EmptyBlock,
     Train(BitsOfBytes(Encode(<<1>>)) \o FrameBits(<<2>>), PERIOD + 20)}

WholeScenarios ==
    {[kind |-> "whole", blocks |-> bs, payload |-> <<>>, split |-> 0] :
        bs \in SeqsUpTo(BlockPool, MaxBlocks) \ {<<>>}}

\* a block that holds the frames [1] and [2] and the pulse that follows them,
\* its first pulse 20 samples in
TwoFrameBlock == Train(BitsOfBytes(Encode(<<1>>)) \o FrameBits(<<2>>), 20)

\* one or two such blocks
DeliveryScenarios ==
    {[kind |-> "whole", blocks |-> bs, payload |-> <<>>, split |-> 0] :
        bs \in {<<TwoFrameBlock>>, <<TwoFrameBlock, TwoFrameBlock>>}}

\* a frame whose bits 1..split are in one block and the rest in the next
SplitsOf(n) ==
    {[kind |-> "split",
      blocks |-> <<Train(SubSeq(FrameBits(PayloadOf(n)), 1, s), 20),
                   Train(SubSeq(FrameBits(PayloadOf(n)), s + 1, 8 * (n + 1) + 1), off)>>,
      payload |-> PayloadOf(n), split |-> s] :
        s \in 1..(8 * (n + 1) - 1), off \in Offsets}

SplitScenarios == UNION {SplitsOf(n) : n \in 1..MaxSplitLen}

\* the indices at which the envelope of a block of the gap-decode runs can
\* exceed the threshold
EdgePositions == {50, 55, 60, 61, 3350, 3351, 6650, 6651, 6700, 6750}

IsIncreasing(e) == \A i \in 1..(Len(e) - 1) : e[i] < e[i + 1]

\* one block with up to MaxEdges above-threshold samples
GapScenarios ==
    {[kind |-> "gaps", blocks |-> <<[len |-> e[Len(e)] + 1, edges |-> e]>>,
      payload |-> <<>>, split |-> 0] :
        e \in {x \in SeqsUpTo(EdgePositions, MaxEdges) \ {<<>>} : IsIncreasing(x)}}

\* RadioReader::new
ReaderNew ==
    /\ rRun = TRUE
    /\ capPc = "check"
    /\ captured = 0
    /\ capAfterStop = 0
    /\ jobs = <<>>
    /\ rq = <<>>
    /\ rLast = "init"
    /\ rGot = <<>>
    /\ rReadCount = 0
    /\ rDropPc = "alive"

\* no RadioReader in the picture
ReaderAbsent ==
    /\ rRun = FALSE
    /\ capPc = "done"
    /\ air = <<>>
    /\ scn = [kind |-> "none", payload |-> <<>>, split |-> 0]
    /\ captured = 0
    /\ capAfterStop = 0
    /\ jobs = <<>>
    /\ rq = <<>>
    /\ rLast = "init"
    /\ rGot = <<>>
    /\ rReadCount = 0
    /\ rDropPc = "dropped"

\* no RadioWriter in the picture
WriterAbsent ==
    /\ wCall = [c \in Callers |-> [pc |-> "absent", data |-> <<>>, sent |-> 0]]
    /\ wLock = 0
    /\ wq = <<>>
    /\ wSentLog = <<>>
    /\ txPc = "done"
    /\ txVal = 0
    /\ txShift = 0
    /\ txFails = 0
    /\ pulses = <<>>
    /\ wDropPc = "dropped"

\* RadioWriter::new: an empty channel, the transmit thread started
WriterNew ==
    /\ wLock = 0
    /\ wq = <<>>
    /\ wSentLog = <<>>
    /\ txPc = "recv"
    /\ txVal = 0
    /\ txShift = 0
    /\ txFails = 0
    /\ pulses = <<>>
    /\ wDropPc = "alive"

\* no moving average in the picture
AvgAbsent ==
    /\ arrLen = 0
    /\ avgPc = "none"
    /\ avgX = 0
    /\ to_avg = <<>>
    /\ avg_over_time = <<>>

AccAbsent ==
    /\ accMode = "none"
    /\ accInput = <<>>
    /\ accPos = 0
    /\ acc = ByteAccumulator_new
    /\ accOut = <<>>
    /\ accLog = <<>>

\* concurrent callers with short payloads
WriterInit ==
    /\ WriterNew
    /\ wCall \in [Callers -> {[pc |-> "idle", data |-> d, sent |-> 0] :
                                d \in {PayloadOf(n) : n \in 0..MaxWriteLen}}]
    /\ AccAbsent
    /\ ReaderAbsent
    /\ AvgAbsent

\* the threads of the program take steps as long as they can
WriterSpec ==
    /\ WriterInit
    /\ [][WriterNext]_vars
    /\ WF_vars(TxThread)
    /\ WF_vars(RadioWriter_drop)
    /\ \A c \in Callers : WF_vars(WriteLock(c) \/ WriteSend(c))

\* write around the size limit, with the transmit thread asleep in its idle
\* poll: one caller passes a payload that fits, every other caller one that
\* does not
FitLens == {0, 1, MAX_BYTES - 1, MAX_BYTES}

OverLens == {MAX_BYTES + 1, MAX_BYTES + 2, 256}

WriteSizeInit ==
    /\ WriterNew
    /\ wCall \in [Callers -> {[pc |-> "idle", data |-> PayloadOf(n), sent |-> 0] :
                                n \in FitLens \cup OverLens}]
    /\ Len(wCall[1].data) \in FitLens
    /\ \A c \in Callers \ {1} : Len(wCall[c].data) \in OverLens
    /\ AccAbsent
    /\ ReaderAbsent
    /\ AvgAbsent

WriteSizeNext == \E c \in Callers : WriteCall(c) \/ WriteLock(c) \/ WriteSend(c)

WriteSizeSpec == WriteSizeInit /\ [][WriteSizeNext]_vars

ReaderOn(scenarios) ==
    /\ ReaderNew
    /\ \E x \in scenarios :
        /\ air = x.blocks
        /\ scn = [kind |-> x.kind, payload |-> x.payload, split |-> x.split]
    /\ AccAbsent
    /\ WriterAbsent
    /\ AvgAbsent

\* a RadioReader on a stream that returns whole blocks
ReaderInit == ReaderOn(WholeScenarios)

\* a RadioReader on a stream that returns a frame in two blocks
SplitInit == ReaderOn(SplitScenarios)

SplitSpec == SplitInit /\ [][ReaderNext]_vars

\* a RadioReader on a stream that returns blocks of two frames each
DeliveryInit == ReaderOn(DeliveryScenarios)

DeliverySpec == DeliveryInit /\ [][ReaderNext]_vars

\* a RadioReader on a stream that returns one block with a few pulses
GapInit == ReaderOn(GapScenarios)

GapSpec == GapInit /\ [][ReaderNext]_vars

\* the capture thread and a started drop take steps as long as they can; a
\* stream read that returns is a step of the capture thread
ReaderSpec ==
    /\ ReaderInit
    /\ [][ReaderNext]_vars
    /\ WF_vars(CaptureThread)
    /\ WF_vars(RadioReader_drop)

(***************************************************************************)
(* The moving average of a decode job on its own (the amplitudes do not    *)
(* matter to which samples are read and summed, so the window is kept as   *)
(* the indices of the samples in it).                                      *)
(***************************************************************************)
\* the block lengths: empty, one sample, and around avg_length
ArrLens == {0, 1} \cup (avg_length..(avg_length + MaxExtraSamples))

AvgInit ==
    /\ arrLen \in ArrLens
    /\ avgPc = "loop"
    /\ avgX = 0
    /\ to_avg = <<>>
    /\ avg_over_time = <<>>
    /\ AccAbsent
    /\ WriterAbsent
    /\ ReaderAbsent

\* one iteration of `for x in 0..arr.len() - 1`
AverageStep ==
    /\ avgPc = "loop"
    /\ arrLen > 0
    /\ avgX < arrLen - 1
    /\ LET pushed == Append(to_avg, avgX)
       IN  IF avgX > avg_length
           THEN /\ avg_over_time' = Append(avg_over_time,
                                           [x |-> avgX, first |-> Head(pushed),
                                            last |-> pushed[Len(pushed)], size |-> Len(pushed)])
                /\ to_avg' = Tail(pushed)
           ELSE /\ to_avg' = pushed
                /\ UNCHANGED avg_over_time
    /\ avgX' = avgX + 1
    /\ UNCHANGED <<arrLen, avgPc>>
    /\ UNCHANGED <<accVars, wVars, rVars>>

\* the end of the for loop; on an empty block arr.len() - 1 underflows and
\* the job panics (on overflow, or else on arr.get(0).unwrap())
AverageEnd ==
    /\ avgPc = "loop"
    /\ arrLen = 0 \/ avgX >= arrLen - 1
    /\ avgPc' = IF arrLen = 0 THEN "panicked" ELSE "done"
    /\ UNCHANGED <<arrLen, avgX, to_avg, avg_over_time>>
    /\ UNCHANGED <<accVars, wVars, rVars>>

AvgNext == AverageStep \/ AverageEnd

AvgSpec == AvgInit /\ [][AvgNext]_vars

(***************************************************************************)
(* End to end: one write goes through the transmit loop; the pulse train   *)
(* it produced (every stream.tx having succeeded) reaches the reader's     *)
(* stream as a single block, one slot of PERIOD samples per pulse slot.    *)
(***************************************************************************)
E2EPayloads == {<<65>>, <<193>>, <<65, 66>>}

Radiate ==
    /\ wCall[1].pc = "ok"
    /\ wq = <<>>
    /\ txPc \in {"recv", "sleep"}
    /\ Len(pulses) = 8 * Len(Encode(wCall[1].data))
    /\ txFails = 0
    /\ air = <<>>
    /\ \E off \in Offsets : air' = <<Train(pulses, off)>>
    /\ UNCHANGED <<rRun, capPc, scn, captured, capAfterStop, jobs, rq, rLast, rGot, rReadCount, rDropPc>>
    /\ UNCHANGED <<accVars, wVars, avgVars>>

E2EInit ==
    /\ WriterNew
    /\ \E d \in E2EPayloads :
        /\ wCall = [c \in Callers |-> IF c = 1 THEN [pc |-> "idle", data |-> d, sent |-> 0]
                                               ELSE [pc |-> "absent", data |-> <<>>, sent |-> 0]]
        /\ scn = [kind |-> "air", payload |-> d, split |-> 0]
    /\ ReaderNew
    /\ air = <<>>
    /\ AccAbsent
    /\ AvgAbsent

E2ENext == WriterNext \/ Radiate \/ ReaderNext

E2ESpec == E2EInit /\ [][E2ENext]_vars

(***************************************************************************)
(* The accumulator on its own: a fresh accumulator is fed a byte sequence, *)
(* either bit by bit through accumulate_bit or byte by byte through        *)
(* accumulate_byte.                                                        *)
(***************************************************************************)
AccInit ==
    /\ accMode \in {"bit", "byte"}
    /\ accInput \in SeqsUpTo(AccBytes, MaxAccBytes) \ {<<>>}
    /\ accPos = 0
    /\ acc = ByteAccumulator_new
    /\ accOut = <<>>
    /\ accLog = <<>>
    /\ WriterAbsent
    /\ ReaderAbsent
    /\ AvgAbsent

LogEntry(a, byte, r) == [byte |-> byte, header |-> a.data_len = 0, emitted |-> r.sent # <<>>]

FeedBit ==
    /\ accMode = "bit"
    /\ accPos < 8 * Len(accInput)
    /\ LET bit == BitsOfBytes(accInput)[accPos + 1]
           r == accumulate_bit(acc, bit, TRUE)
       IN  /\ acc' = r.acc
           /\ accOut' = accOut \o r.sent
           /\ accLog' = IF acc.current_byte_idx = 8
                        THEN Append(accLog, LogEntry(acc, acc.current_byte, r))
                        ELSE accLog
    /\ accPos' = accPos + 1
    /\ UNCHANGED <<accMode, accInput, wVars, rVars, avgVars>>

FeedByte ==
    /\ accMode = "byte"
    /\ accPos < Len(accInput)
    /\ LET byte == accInput[accPos + 1]
           r == accumulate_byte(acc, byte, TRUE)
       IN  /\ acc' = r.acc
           /\ accOut' = accOut \o r.sent
           /\ accLog' = Append(accLog, LogEntry(acc, byte, r))
    /\ accPos' = accPos + 1
    /\ UNCHANGED <<accMode, accInput, wVars, rVars, avgVars>>

AccNext == FeedBit \/ FeedByte

AccSpec == AccInit /\ [][AccNext]_vars

AwaitingHeader(a) == a.data_len = 0 /\ a.accum = <<>>

\* s is the wire encoding of a payload of 1..=127 bytes
IsFrameEncoding(s) ==
    /\ Len(s) >= 2
    /\ Len(s) - 1 <= MAX_BYTES
    /\ s = Encode(Tail(s))

\* C1: once exactly the 8*(n+1) bits of header (n<<1)|1 and an n-byte payload
\* (1 <= n <= 127) have gone through accumulate_bit into a fresh accumulator,
\* exactly one frame has been emitted, it equals the payload, and the
\* accumulator is awaiting a header again.
C1_RoundTrip ==
    (accMode = "bit" /\ IsFrameEncoding(accInput) /\ accPos = 8 * Len(accInput))
        => (accOut = <<Tail(accInput)>> /\ AwaitingHeader(acc))

ZeroLengthHeaderAt(i) == accLog[i].header /\ Shr1(accLog[i].byte) = 0

\* C9 as stated: after a header byte with byte >> 1 = 0 taken in the awaiting-
\* header state, no later accumulate_byte call emits a frame and every
\* following byte is taken as a new header, whatever the bytes are.
C9_StallForever ==
    \A i \in 1..Len(accLog) :
        ZeroLengthHeaderAt(i) =>
            \A j \in i..Len(accLog) : accLog[j].header /\ ~accLog[j].emitted

\* C9 amended: after such a header, no frame is emitted and every following
\* byte is taken as a new header for as long as the following bytes also have
\* byte >> 1 = 0; the first following byte with byte >> 1 > 0 is itself taken
\* as a header (and emits nothing).
C9_StallUntilValidHeader ==
    \A i \in 1..Len(accLog) :
        ZeroLengthHeaderAt(i) =>
            \A j \in i..Len(accLog) :
                (\A k \in (i + 1)..(j - 1) : Shr1(accLog[k].byte) = 0)
                    => (accLog[j].header /\ ~accLog[j].emitted)

\* two zero-length headers in a row, then a third byte taken as a header
C9_Witness ==
    /\ accMode = "byte"
    /\ Len(accLog) >= 3
    /\ ZeroLengthHeaderAt(1)
    /\ ZeroLengthHeaderAt(2)
    /\ accLog[3].header
    /\ Shr1(accLog[3].byte) > 0

(***************************************************************************)
(* RadioWriter claims.                                                     *)
(***************************************************************************)
\* C2: once drop of the RadioWriter has started, it eventually returns: the
\* transmit loop sees the channel closed and exits, and the join completes.
C2_TeardownTerminates == (wDropPc = "join") ~> (wDropPc = "dropped")

\* the bytes caller c has put on the input channel, in order
CallerBytes(c) ==
    LET mine == SelectSeq(wSentLog, LAMBDA e : e.caller = c)
    IN  [i \in 1..Len(mine) |-> mine[i].byte]

IsPrefix(p, q) == Len(p) <= Len(q) /\ p = SubSeq(q, 1, Len(p))

\* C4: at most one caller is between taking the lock and returning; the bytes
\* of each write form one contiguous run of the bytes sent on the input
\* channel, and that run is the header (len << 1) | 1 followed by the payload
\* bytes in payload order (a prefix of it while the write is still sending).
C4_WritesContiguous ==
    /\ Cardinality({c \in Callers : wCall[c].pc = "send"}) <= 1
    /\ \A i, j \in 1..Len(wSentLog) :
          (i < j /\ wSentLog[i].caller = wSentLog[j].caller)
              => \A k \in i..j : wSentLog[k].caller = wSentLog[i].caller
    /\ \A c \in Callers :
          LET whole == <<2 * Len(wCall[c].data) + 1>> \o wCall[c].data
          IN  /\ IsPrefix(CallerBytes(c), whole)
              /\ wCall[c].pc = "ok" => CallerBytes(c) = whole
              /\ wCall[c].pc \in {"idle", "lock"} => CallerBytes(c) = <<>>

\* one write is half way through its bytes while another waits for the lock,
\* and a third party (or the first, earlier) has already written
C4_Witness ==
    \E c, d \in Callers :
        /\ wCall[c].pc = "send"
        /\ wCall[c].sent = 2
        /\ Len(wCall[c].data) = 2
        /\ wCall[d].pc = "lock"
        /\ Len(wCall[d].data) >= 1

\* C5: for every length 0..=127 the header fits in 8 bits and header >> 1 is
\* the length, and the header of 127 bytes is 255; a write of at most 127
\* bytes never panics and never fails, and a finished write of 127 bytes has
\* enqueued 255 and then the payload; a write of 128 bytes or more panics
\* without having enqueued anything.
C5_WriteSizeBoundary ==
    /\ \A len \in 0..MAX_BYTES :
          HeaderOf(len) \in 0..255 /\ Shr1(HeaderOf(len)) = len
    /\ HeaderOf(MAX_BYTES) = 255
    /\ \A c \in Callers :
          /\ Len(wCall[c].data) <= 127 => wCall[c].pc \in {"idle", "lock", "send", "ok"}
          /\ (Len(wCall[c].data) = 127 /\ wCall[c].pc = "ok")
                => CallerBytes(c) = <<255>> \o wCall[c].data
          /\ Len(wCall[c].data) >= 128
                => (wCall[c].pc \in {"idle", "panic"} /\ CallerBytes(c) = <<>>)

\* a write of 127 bytes has returned Ok and a write of 128 bytes has panicked
C5_Witness ==
    \E c, d \in Callers :
        /\ Len(wCall[c].data) = 127
        /\ wCall[c].pc = "ok"
        /\ Len(wSentLog) = 128
        /\ Len(wCall[d].data) = 128
        /\ wCall[d].pc = "panic"

(***************************************************************************)
(* RadioReader claims.                                                     *)
(***************************************************************************)
\* what a read() does to the reader, by the state it is called in
ReadEffect ==
    /\ rq # <<>> =>
          /\ rLast' = "frame"
          /\ rGot' = Append(rGot, Head(rq))
          /\ rq' = Tail(rq)
    /\ (rq = <<>> /\ OutputSendersAlive) =>
          /\ rLast' = "none"
          /\ UNCHANGED <<rq, rGot, jobs, capPc, rRun, rDropPc, captured>>
    /\ rLast' = "panic" <=> (rq = <<>> /\ ~OutputSendersAlive)

\* C6: read() can always be taken by a live reader, whatever the queue and
\* the threads are doing; with a frame in the output queue it removes and
\* returns the oldest one; with the queue empty and a Sender alive it returns
\* none and changes nothing; it panics exactly when the queue is empty and
\* every Sender is gone.
C6_ReadOutcomes ==
    /\ []((rDropPc = "alive" /\ rLast # "panic" /\ rReadCount < MaxReads)
            => ENABLED RadioReader_read)
    /\ [][rReadCount' # rReadCount => ReadEffect]_vars

\* one read returned a frame and a later one found the queue empty
C6_Witness == rGot # <<>> /\ rLast = "none" /\ rReadCount = 2

\* C7: a drop that has started has cleared the run flag; it has not returned
\* while the capture thread has not exited; at most one block is captured
\* after the flag is cleared; and a started drop returns, unless the capture
\* thread ended in a panicking stream read.
C7_ReaderTeardown ==
    /\ [](rDropPc # "alive" => ~rRun)
    /\ [](rDropPc = "dropped" => capPc = "done")
    /\ [](capAfterStop <= 1)
    /\ ((rDropPc = "join") ~> (rDropPc = "dropped" \/ capPc = "panicked"))

\* drop has returned after the capture thread took one more block
C7_Witness == rDropPc = "dropped" /\ capAfterStop = 1 /\ capPc = "done"

\* C8: when drop of the RadioReader has returned, no decode job is still
\* queued or executing.
C8_TeardownStopsJobs ==
    rDropPc = "dropped" => \A j \in 1..Len(jobs) : jobs[j].state \in {"done", "panicked"}

RECURSIVE ScanAlone(_, _, _)
\* the frames the edge scan emits from the given edges on, on an open channel
ScanAlone(edges, last_counter, a) ==
    IF edges = <<>> THEN <<>>
    ELSE LET r == FeedBits(a, EdgeBits(Head(edges), last_counter), TRUE)
         IN  r.sent \o ScanAlone(Tail(edges), NextLastCounter(Head(edges), last_counter), r.acc)

\* the frames a block decodes to by itself, with a fresh accumulator
DecodeAlone(block) == ScanAlone(block.edges, 0, ByteAccumulator_new)

Emitted(j, frame) == \E i \in 1..Len(jobs[j].emitted) : jobs[j].emitted[i] = frame

\* C3: when the decode job of the block that holds the whole pulse train of a
\* written payload has finished, it has published a frame equal to the payload
\* (which read() can then return).
C3_EndToEnd ==
    \A j \in 1..Len(jobs) :
        (scn.kind = "air" /\ jobs[j].blk = 1 /\ jobs[j].state = "done")
            => Emitted(j, scn.payload)

FirstBlockHoldsFrameBit ==
    \E i \in 2..scn.split : FrameBits(scn.payload)[i] = 1

PositiveTerms(g) == Cardinality({n \in 1..(g \div PERIOD + 1) : g - n * PERIOD > 0})

\* job j has just handled one more above-threshold sample
ScannedOne(j) == jobs[j].state = "running" /\ jobs'[j].pos = jobs[j].pos + 1

\* C11: a gap of 50 decodes to [true] and a gap of 6700 to [false, false,
\* true]; and whenever the edge scan handles an above-threshold sample whose
\* gap g from last_counter exceeds 10, the bits it feeds are exactly k false
\* bits and then one true bit, k being the number of strictly positive terms
\* in g - 3300, g - 2*3300, ...
C11_GapDecode ==
    /\ [](GapBits(50) = <<1>> /\ GapBits(6700) = <<0, 0, 1>>)
    /\ [][\A j \in 1..Len(jobs) :
            ScannedOne(j) =>
                LET g == jobs'[j].last_counter - jobs[j].last_counter
                IN  g > MIN_GAP =>
                        jobs'[j].bin = jobs[j].bin \o [i \in 1..PositiveTerms(g) |-> 0] \o <<1>>]_vars

\* a job has decoded a gap of 50 and then a gap of 6700
C11_Witness ==
    \E j \in 1..Len(jobs) :
        /\ jobs[j].pos = 2
        /\ jobs[j].last_counter = 6750
        /\ jobs[j].bin = <<1, 0, 0, 1>>

(***************************************************************************)
(* ByteAccumulator invariants.                                             *)
(***************************************************************************)
\* C12: after every completed accumulate_bit call the partial bit count is in
\* [0, 8): a partial byte of 8 bits has been flushed, not left pending.
C12_BitCountBelow8 == accMode = "bit" => acc.current_byte_idx \in 0..7

\* the accumulate_byte calls up to the i-th that emitted a frame
EmittedUpTo(i) == Cardinality({k \in 1..i : accLog[k].emitted})

\* the latest call up to the i-th whose byte was taken as a header
HeaderBefore(i) == CHOOSE h \in 1..i :
                      accLog[h].header /\ \A k \in (h + 1)..i : ~accLog[k].header

\* the bytes of calls lo..hi
LogBytes(lo, hi) == [m \in 1..(hi - lo + 1) |-> accLog[lo + m - 1].byte]

\* C13: every emitted frame has as many bytes as the length (header >> 1, in
\* 1..127) set by the header that opened it and is the bytes fed after that
\* header, in order; between calls, expected length 0 implies an empty payload
\* and expected length > 0 a payload strictly shorter than it; right after an
\* emission the accumulator is awaiting a header.
C13_FrameLength ==
    /\ Len(accOut) = EmittedUpTo(Len(accLog))
    /\ \A i \in 1..Len(accLog) :
          accLog[i].emitted =>
              /\ ~accLog[i].header
              /\ LET h == HeaderBefore(i)
                      frame == accOut[EmittedUpTo(i)]
                 IN  /\ Len(frame) = accLog[h].byte \div 2
                     /\ Len(frame) \in 1..127
                     /\ frame = LogBytes(h + 1, i)
    /\ acc.data_len = 0 => acc.accum = <<>>
    /\ acc.data_len > 0 => Len(acc.accum) < acc.data_len
    /\ (accLog # <<>> /\ accLog[Len(accLog)].emitted)
          => (acc.data_len = 0 /\ acc.accum = <<>>)

\* two frames of one byte in a row, each after its own header
C13_Witness ==
    /\ accMode = "byte"
    /\ accPos = 4
    /\ accOut = <<(<<65>>), (<<66>>)>>
    /\ accLog[4].emitted

\* the first call after the i-th whose byte has byte >> 1 > 0, if there is one
\* (0 if not)
NextValidHeader(i) ==
    LET later == {j \in (i + 1)..Len(accLog) : accLog[j].byte \div 2 > 0}
    IN  IF later = {} THEN 0 ELSE CHOOSE j \in later : \A k \in later : j <= k

\* C19: accumulate_byte of a byte with byte >> 1 = 0 in the awaiting-header
\* state returns Ok, emits nothing and leaves the accumulator as it was; the
\* first later byte b with b >> 1 > 0 is taken as a header and sets the
\* expected length to b >> 1, and the b >> 1 bytes after it are emitted as one
\* frame.
C19_StallEndsAtValidHeader ==
    /\ [](AwaitingHeader(acc) =>
            \A b \in {0, 1} :
                accumulate_byte(acc, b, TRUE) = [acc |-> acc, sent |-> <<>>, ok |-> TRUE])
    /\ [][(accMode = "byte" /\ accPos' = accPos + 1 /\ AwaitingHeader(acc)
             /\ accInput[accPos + 1] \div 2 = 0)
            => (acc' = acc /\ accOut' = accOut)]_vars
    /\ [](\A i \in 1..Len(accLog) :
            (ZeroLengthHeaderAt(i) /\ NextValidHeader(i) # 0) =>
                LET j == NextValidHeader(i)
                    n == accLog[j].byte \div 2
                IN  /\ accLog[j].header
                    /\ ~accLog[j].emitted
                    /\ j = Len(accLog) => (acc.data_len = n /\ acc.accum = <<>>)
                    /\ \A k \in (j + 1)..Len(accLog) : k < j + n => ~accLog[k].emitted
                    /\ j + n <= Len(accLog) =>
                          /\ accLog[j + n].emitted
                          /\ accOut[EmittedUpTo(j + n)] = LogBytes(j + 1, j + n))

\* a zero-length header, then header 5 and its two bytes emitted as a frame
C19_Witness ==
    /\ accMode = "byte"
    /\ accInput = <<1, 5, 65, 66>>
    /\ accPos = 4
    /\ accOut = <<(<<65, 66>>)>>

\* the above-threshold sample job j handles next
NextSample(j) == BlockOf(j).edges[jobs[j].pos + 1]

\* job j has just handled an above-threshold sample at most MIN_GAP samples
\* after last_counter
ScannedNear(j) == ScannedOne(j) /\ NextSample(j) - jobs[j].last_counter <= MIN_GAP

\* C14 as stated: an above-threshold sample at most 10 samples after the last
\* marked edge feeds no bit and leaves the last-marked-edge position as it was.
C14_NearSampleLeavesLastEdge ==
    [][\A j \in 1..Len(jobs) :
          ScannedNear(j) =>
              /\ jobs'[j].bin = jobs[j].bin
              /\ jobs'[j].last_counter = jobs[j].last_counter]_vars

\* C14 amended: such a sample feeds no bit, changes nothing in the
\* accumulator and emits nothing, but it does become the position the next gap
\* is measured from: last_counter is set to the index of every above-threshold
\* sample, decoded or not.
C14_NearSampleMovesLastEdge ==
    [][\A j \in 1..Len(jobs) :
          /\ ScannedNear(j) =>
                /\ jobs'[j].bin = jobs[j].bin
                /\ jobs'[j].acc = jobs[j].acc
                /\ jobs'[j].emitted = jobs[j].emitted
                /\ rq' = rq
          /\ ScannedOne(j) => jobs'[j].last_counter = NextSample(j)]_vars

\* samples at 50, 55 and 61: the first is decoded, the second is 5 after it,
\* the third 6 after the second (and 11 after the first) and not decoded
C14_Witness ==
    \E j \in 1..Len(jobs) :
        /\ BlockOf(j).edges = <<50, 55, 61>>
        /\ jobs[j].pos = 3
        /\ jobs[j].bin = <<1>>
        /\ jobs[j].last_counter = 61

(***************************************************************************)
(* Transmit loop claims.                                                   *)
(***************************************************************************)
\* the bytes the transmit loop has dequeued so far
Dequeued == Len(wSentLog) - Len(wq)

\* C15: the pulse slots slept so far are 8 for every byte the transmit loop
\* has finished, in the order the bytes were dequeued, plus one per bit
\* position done of the byte in progress; slot i of a byte (i = 0..7) had
\* stream.tx called exactly when bit i of the byte is 1; and this holds
\* whether or not a stream.tx call has failed.
C15_EightSlotsPerByte ==
    LET finished == IF txPc = "bits" THEN Dequeued - 1 ELSE Dequeued
    IN  /\ Len(pulses) = 8 * finished + (IF txPc = "bits" THEN txShift ELSE 0)
        /\ txPc = "bits" => (txShift \in 0..7 /\ txVal = wSentLog[Dequeued].byte)
        /\ \A n \in 1..Len(pulses) :
              pulses[n] = (wSentLog[(n - 1) \div 8 + 1].byte \div (2 ^ ((n - 1) % 8))) % 2

\* a stream.tx call has failed and the loop has gone through all 8 slots of
\* each of the three bytes of a write since (bit 7 of every byte written is
\* 0, so at least one slot came after the failed call)
C15_Witness ==
    /\ txFails = 1
    /\ Len(pulses) = 24
    /\ Dequeued = 3
    /\ txPc = "recv"

(***************************************************************************)
(* Decode jobs on a closed frame channel.                                  *)
(***************************************************************************)
\* the RadioReader, and the Receiver in it, is gone
ReceiverDropped == rDropPc \in {"dropped", "panicked"}

\* job j has just taken a step of its edge scan
ScanStep(j) == jobs[j].state = "running" /\ jobs'[j] # jobs[j]

\* the bits job j feeds at its next above-threshold sample
NextBits(j) == EdgeBits(NextSample(j), jobs[j].last_counter)

\* C16 as stated: after the Receiver has been dropped every accumulate_bit
\* call returns an error, whatever the accumulator holds: a job that calls it
\* gets no bit through and panics.
C16_ClosedChannelAlwaysFails ==
    [][\A j \in 1..Len(jobs) :
          (ScanStep(j) /\ ReceiverDropped /\ NextBits(j) # <<>>) =>
              /\ jobs'[j].state = "panicked"
              /\ jobs'[j].bin = jobs[j].bin]_vars

\* C16 amended: on a closed frame channel accumulate_bit returns an error
\* exactly when the call has a frame to send, that is when on an open channel
\* the same call would have emitted one; every other call returns Ok.  A job
\* whose call returns the error panics, having emitted nothing in that step,
\* and a job panics in its edge scan in no other case.
C16_ClosedChannelFailsOnSend ==
    /\ [](\A j \in 1..Len(jobs) : \A bit \in {0, 1} :
            accumulate_bit(jobs[j].acc, bit, FALSE).ok
                <=> accumulate_bit(jobs[j].acc, bit, TRUE).sent = <<>>)
    /\ [][\A j \in 1..Len(jobs) :
            ScanStep(j) =>
                /\ jobs'[j].state = "panicked"
                      <=> (ReceiverDropped /\ FeedBits(jobs[j].acc, NextBits(j), TRUE).sent # <<>>)
                /\ jobs'[j].state = "panicked"
                      => (jobs'[j].emitted = jobs[j].emitted /\ rq' = rq)]_vars

\* after the reader is gone a job has panicked on its first frame: the bits
\* of the header and of the payload went through, the call that flushed the
\* last payload byte failed
C16_Witness ==
    /\ rDropPc = "dropped"
    /\ \E j \in 1..Len(jobs) :
          /\ jobs[j].state = "panicked"
          /\ Len(jobs[j].bin) >= 16
          /\ jobs[j].emitted = <<>>
          /\ jobs[j].acc.current_byte_idx = 8
          /\ Len(jobs[j].acc.accum) = jobs[j].acc.data_len

(***************************************************************************)
(* Envelope claims.                                                        *)
(***************************************************************************)
\* C17: every envelope value is computed from a window of exactly 1000
\* amplitudes; the first one is produced at the sample with which the window
\* first holds 1000 values; between iterations the window never holds more
\* than 1000; and when the loop is over every sample of the block has gone
\* into the amplitude trace.
C17_WindowOfThousand ==
    /\ \A i \in 1..Len(avg_over_time) :
          /\ avg_over_time[i].size = 1000
          /\ avg_over_time[i].last - avg_over_time[i].first + 1 = 1000
    /\ avg_over_time # <<>> => avg_over_time[1].x = 999
    /\ Len(to_avg) <= 1000
    /\ avgPc = "done" => avgX = arrLen

(***************************************************************************)
(* The output queue and abnormal ends.                                     *)
(***************************************************************************)
JobPanicked == \E j \in 1..Len(jobs) : jobs[j].state = "panicked"

JobsAllOver == \A j \in 1..Len(jobs) : jobs[j].state \in {"done", "panicked"}

\* what a read() would find now
WouldRead == TryRecv(rq, OutputSendersAlive)

\* C18 as stated: while the reader is alive the output queue is closed exactly
\* when a pipeline thread has ended abnormally, a panicked decode job
\* included; and read() aborts only then.
C18_ClosedIffWorkerPanicked ==
    /\ rDropPc = "alive" => (~OutputSendersAlive <=> (JobPanicked \/ capPc = "panicked"))
    /\ rLast = "panic" => (JobPanicked \/ capPc = "panicked")

\* C18 amended: a panicking decode job drops only its own clone of the Sender
\* and does not close the queue; while the reader is alive the capture thread
\* has not returned, and as long as it runs the queue is open and read() does
\* not abort; read() finds the queue closed exactly when the capture thread
\* has panicked, every submitted job is over and the queue is empty.
C18_ClosedOnlyAfterCapturePanic ==
    /\ rDropPc = "alive" => capPc # "done"
    /\ (rDropPc = "alive" /\ capPc \in {"check", "iter"}) => WouldRead # "disconnected"
    /\ rDropPc = "alive" =>
          (WouldRead = "disconnected" <=> (capPc = "panicked" /\ JobsAllOver /\ rq = <<>>))
    /\ rLast = "panic" => (capPc = "panicked" /\ JobsAllOver /\ rq = <<>>)

\* a decode job has panicked, every job is over, and a read() finds the
\* queue empty, not closed
C18_Witness ==
    /\ rDropPc = "alive"
    /\ JobPanicked
    /\ JobsAllOver
    /\ captured = Len(air)
    /\ rq = <<>>
    /\ rLast = "none"
    /\ WouldRead = "empty"

(***************************************************************************)
(* Delivery through the output queue.                                      *)
(***************************************************************************)
\* the frames of job j in a sequence of queue entries, in order
FramesOf(q, j) ==
    LET mine == SelectSeq(q, LAMBDA e : e.job = j)
    IN  [i \in 1..Len(mine) |-> mine[i].frame]

\* C20: while the Receiver is alive, for every decode job the frames read()
\* has returned followed by the frames still in the queue are exactly the
\* frames the job emitted, in the order it emitted them: none is returned
\* twice, none is lost, none overtakes another of the same block; and every
\* queue entry and every returned frame comes from a submitted job.
C20_QueueDelivery ==
    OutputReceiverAlive =>
        /\ \A j \in 1..Len(jobs) : FramesOf(rGot, j) \o FramesOf(rq, j) = jobs[j].emitted
        /\ \A i \in 1..Len(rGot) : rGot[i].job \in 1..Len(jobs)
        /\ \A i \in 1..Len(rq) : rq[i].job \in 1..Len(jobs)

\* read() has returned a frame of the second block and then a frame of the
\* first, each job having emitted two frames
C20_Witness ==
    /\ Len(rGot) = 2
    /\ rGot[1].job = 2
    /\ rGot[2].job = 1
    /\ Len(jobs[1].emitted) = 2
    /\ Len(jobs[2].emitted) = 2

====
